---------------------------- MODULE Spec2Model ----------------------------
(***************************************************************************)
(* Model of docs/clif_domain.py: the 'clif' Sphinx domain for the          *)
(* Cranelift IR reference.                                                 *)
(*                                                                         *)
(*  - the cross-reference index data['objects'] (name -> docname, objtype) *)
(*    with add_target_and_index / clear_doc / merge_domaindata /           *)
(*    resolve_xref, driven the way the documentation host drives a domain: *)
(*    clear_doc(d) before every read of d, reads either in the main        *)
(*    process or in forked workers whose copies are merged back;           *)
(*  - the signature parsers ClifInst.handle_signature, parse_type /        *)
(*    ClifType.handle_signature, and InstDocumenter.format_signature, on   *)
(*    strings represented as sequences of one-character strings.           *)
(***************************************************************************)
EXTENDS Naturals, Integers, Sequences, FiniteSets, TLC

(***************************************************************************)
(* Bounds of the model.                                                    *)
(***************************************************************************)
MaxDescs == 2
\* object descriptions processed per read of a page

\* docnames of the pages of the documentation
Pages == {"p1", "p2"}

\* reader processes forked by a parallel build
Workers == {"w1", "w2"}

Names == {"foo", "bar"}

\* CraneliftDomain.directives: the objtype of a description is the name of
\* its directive; two of the three directive names ('instgroup' is indexed
\* by the same ClifObject code)
ObjTypes == {"type", "inst"}

\* CraneliftDomain.roles: the typ of a cross-reference
Roles == {"type", "inst", "instgroup"}

None == "None"

\* initial_data: 'objects': {}
EmptyIndex == [n \in {} |-> <<None, None>>]

(***************************************************************************)
(* The index operations, as functions of the dictionaries they work on.    *)
(***************************************************************************)

\* inv[name] = value  (dict item assignment)
SetItem(inv, name, value) ==
    [n \in (DOMAIN inv) \cup {name} |-> IF n = name THEN value ELSE inv[n]]

\* self.env.doc2path(docname): the source file of a page
doc2path(docname) == <<"path", docname>>

\* mutant: keeps the first registration of a name instead of the latest
add_target_and_index_keepfirst(inv, ids, docname, objtype, name) ==
    LET targetname == objtype \o "-" \o name
    IN  IF targetname \notin ids
           THEN [ids     |-> ids \cup {targetname},
                 inv     |-> IF name \in DOMAIN inv THEN inv
                             ELSE SetItem(inv, name, <<docname, objtype>>),
                 warnings |-> IF name \in DOMAIN inv
                                 THEN {<<name, doc2path(inv[name][1])>>}
                                 ELSE {}]
           ELSE [ids |-> ids, inv |-> inv, warnings |-> {}]

\* mutant: enters the name in the index without registering the target id
add_target_and_index_noid(inv, ids, docname, objtype, name) ==
    LET targetname == objtype \o "-" \o name
    IN  IF targetname \notin ids
           THEN [ids      |-> ids,
                 inv      |-> SetItem(inv, name, <<docname, objtype>>),
                 warnings |-> IF name \in DOMAIN inv
                                 THEN {<<name, doc2path(inv[name][1])>>}
                                 ELSE {}]
           ELSE [ids |-> ids, inv |-> inv, warnings |-> {}]

\* ClifObject.add_target_and_index: inv is domaindata['clif']['objects'] of the
\* reading process, ids is state.document.ids of the page being read.
\* Result: the new ids, the new index, and the warnings emitted: the name
\* and the path of the other instance.
add_target_and_index(inv, ids, docname, objtype, name) ==
    LET targetname == objtype \o "-" \o name
    IN  IF targetname \notin ids
           THEN [ids     |-> ids \cup {targetname},
                 inv     |-> SetItem(inv, name, <<docname, objtype>>),
                 warnings |-> IF name \in DOMAIN inv
                                 THEN {<<name, doc2path(inv[name][1])>>}
                                 ELSE {}]
           ELSE [ids |-> ids, inv |-> inv, warnings |-> {}]

\* mutant: deletes by name of the first match only (stops after one deletion)
clear_doc_one(objs, docname) ==
    LET hit == {n \in DOMAIN objs : objs[n][1] = docname}
    IN  IF hit = {} THEN objs
        ELSE LET victim == CHOOSE n \in hit : TRUE
             IN  [n \in (DOMAIN objs) \ {victim} |-> objs[n]]

\* CraneliftDomain.clear_doc
clear_doc(objs, docname) ==
    [n \in {m \in DOMAIN objs : objs[m][1] # docname} |-> objs[n]]

\* mutant: copies every entry of otherdata, whatever its page
merge_domaindata_all(objs, docnames, otherobjs) ==
    [objects   |-> [n \in (DOMAIN objs) \cup (DOMAIN otherobjs) |->
                       IF n \in DOMAIN otherobjs THEN otherobjs[n] ELSE objs[n]],
     otherdata |-> otherobjs]

\* mutant: copies only the names this domain does not hold yet
merge_domaindata_keep(objs, docnames, otherobjs) ==
    LET copied == {n \in DOMAIN otherobjs :
                      otherobjs[n][1] \in docnames /\ n \notin DOMAIN objs}
    IN  [objects   |-> [n \in (DOMAIN objs) \cup copied |->
                           IF n \in copied THEN otherobjs[n] ELSE objs[n]],
         otherdata |-> otherobjs]

\* CraneliftDomain.merge_domaindata: the new self.data['objects'] and
\* otherdata['objects'] as the call leaves it
merge_domaindata(objs, docnames, otherobjs) ==
    LET copied == {n \in DOMAIN otherobjs : otherobjs[n][1] \in docnames}
    IN  [objects   |-> [n \in (DOMAIN objs) \cup copied |->
                           IF n \in copied THEN otherobjs[n] ELSE objs[n]],
         otherdata |-> otherobjs]

\* sphinx.util.nodes.make_refnode as called by resolve_xref: the reference
\* node is represented by the arguments it is built from. A result that is
\* None or a node is the empty set or the set of that node.
make_refnode(fromdocname, todocname, targetid, title) ==
    [fromdocname |-> fromdocname, todocname |-> todocname,
     targetid |-> targetid, title |-> title]

\* mutant: builds the anchor from the role used, not from the recorded kind
resolve_xref_bytyp(objs, fromdocname, typ, target) ==
    IF target \notin DOMAIN objs THEN {}
    ELSE {make_refnode(fromdocname, objs[target][1], typ \o "-" \o target, target)}

\* CraneliftDomain.resolve_xref
resolve_xref(objs, fromdocname, typ, target) ==
    IF target \notin DOMAIN objs THEN {}
    ELSE LET obj == objs[target]
         IN  {make_refnode(fromdocname, obj[1], obj[2] \o "-" \o target, target)}

(***************************************************************************)
(* Strings are sequences of one-character strings.                         *)
(***************************************************************************)
MaxSigLen == 7
\* length of an instruction signature

MaxTypeLen == 4
\* length of a type signature

MaxOps == 2
\* operands in each of an instruction's outs and ins

StringsOver(alphabet, maxlen) ==
    UNION {[1 .. n -> alphabet] : n \in 0 .. maxlen}

UpperCase == {"A", "B", "C", "D", "E", "F", "G", "H", "I", "J", "K", "L", "M",
              "N", "O", "P", "Q", "R", "S", "T", "U", "V", "W", "X", "Y", "Z"}

LowerCase == {"a", "b", "c", "d", "e", "f", "g", "h", "i", "j", "k", "l", "m",
              "n", "o", "p", "q", "r", "s", "t", "u", "v", "w", "x", "y", "z"}

Digits == {"0", "1", "2", "3", "4", "5", "6", "7", "8", "9"}

\* the regular expression class \s
IsSpace(c) == c \in {" ", "\t", "\n", "\r"}

\* the regular expression class \w
IsWord(c) == c \in UpperCase \cup LowerCase \cup Digits \cup {"_"}

From(s, i) == SubSeq(s, i, Len(s))

\* the position after the greedy match of \s* at position i
RECURSIVE SkipSpaces(_, _)
SkipSpaces(s, i) ==
    IF i <= Len(s) /\ IsSpace(s[i]) THEN SkipSpaces(s, i + 1) ELSE i

\* the position after a run of non-space characters starting at i
RECURSIVE SkipToken(_, _)
SkipToken(s, i) ==
    IF i <= Len(s) /\ ~IsSpace(s[i]) THEN SkipToken(s, i + 1) ELSE i

\* str.strip()
RECURSIVE RStrip(_)
RStrip(s) ==
    IF Len(s) > 0 /\ IsSpace(s[Len(s)]) THEN RStrip(SubSeq(s, 1, Len(s) - 1))
    ELSE s

strip(s) == RStrip(From(s, SkipSpaces(s, 1)))

\* A match of \s*<sep>\s* that starts at position i: the position after it,
\* or 0 when there is no match at i.
MatchSepAt(s, i, sep) ==
    LET j == SkipSpaces(s, i)
    IN  IF j <= Len(s) /\ s[j] = sep THEN SkipSpaces(s, j + 1) ELSE 0

\* The start of the leftmost match of \s*<sep>\s* at or after position i,
\* or 0.
RECURSIVE SearchSep(_, _, _)
SearchSep(s, i, sep) ==
    IF i > Len(s) THEN 0
    ELSE IF MatchSepAt(s, i, sep) # 0 THEN i
    ELSE SearchSep(s, i + 1, sep)

\* the position of the last sep in s[1..i], or 0
RECURSIVE SearchLast(_, _, _)
SearchLast(s, i, sep) ==
    IF i < 1 THEN 0
    ELSE IF s[i] = sep THEN i
    ELSE SearchLast(s, i - 1, sep)

\* mutant: splits at the last '=' instead of the first
re_split_equal_last(sig) ==
    LET j == SearchLast(sig, Len(sig), "=")
    IN  IF j = 0 THEN <<sig>>
        ELSE <<RStrip(SubSeq(sig, 1, j - 1)), From(sig, SkipSpaces(sig, j + 1))>>

\* re.split(sep_equal, sig, 1) with sep_equal = \s*=\s*
re_split_equal(sig) ==
    LET i == SearchSep(sig, 1, "=")
    IN  IF i = 0 THEN <<sig>>
        ELSE <<SubSeq(sig, 1, i - 1), From(sig, MatchSepAt(sig, i, "="))>>

\* sep_comma.split(s) with sep_comma = \s*,\s*
RECURSIVE sep_comma_split(_)
sep_comma_split(s) ==
    LET i == SearchSep(s, 1, ",")
    IN  IF i = 0 THEN <<s>>
        ELSE <<SubSeq(s, 1, i - 1)>>
                 \o sep_comma_split(From(s, MatchSepAt(s, i, ",")))

\* name.split(None, 1)
str_split_1(s) ==
    LET a == SkipSpaces(s, 1)
        b == SkipToken(s, a)
        c == SkipSpaces(s, b)
    IN  IF a > Len(s) THEN <<>>
        ELSE IF c > Len(s) THEN <<SubSeq(s, a, b - 1)>>
        ELSE <<SubSeq(s, a, b - 1), From(s, c)>>

\* docutils / sphinx nodes appended to signode
Text(t) == [node |-> "Text", text |-> t]

emphasis(t) == [node |-> "emphasis", text |-> t]

desc_name(t) == [node |-> "desc_name", text |-> t]

\* the nodes parse_params appends for the items ps[i..]
RECURSIVE ParamNodes(_, _)
ParamNodes(ps, i) ==
    IF i > Len(ps) THEN <<>>
    ELSE (IF i # 1 THEN <<Text(<<",", " ">>)>> ELSE <<>>)
             \o <<emphasis(ps[i])>> \o ParamNodes(ps, i + 1)

\* parse_params(s, signode): the nodes appended to signode
parse_params(s) == ParamNodes(sep_comma_split(s), 1)

\* ClifInst.handle_signature(sig, signode): the returned name and the nodes
\* appended to signode; parts[0] of an empty split raises IndexError
ClifInst_handle_signature(sig) ==
    LET parts  == re_split_equal(sig)
        outs   == IF Len(parts) = 2
                     THEN parse_params(parts[1]) \o <<Text(<<" ", "=", " ">>)>>
                     ELSE <<>>
        name0  == IF Len(parts) = 2 THEN parts[2] ELSE parts[1]
        parts2 == str_split_1(name0)
    IN  IF Len(parts2) = 0
           THEN [raised |-> "IndexError", name |-> <<>>, signode |-> outs]
           ELSE [raised  |-> None,
                 name    |-> parts2[1],
                 signode |-> outs \o <<desc_name(parts2[1])>>
                             \o (IF Len(parts2) = 2
                                    THEN <<Text(<<" ">>)>> \o parse_params(parts2[2])
                                    ELSE <<>>)]

\* typevar = re.compile('(\%[A-Z])') matches at position i
IsTypevarAt(s, i) ==
    /\ i + 1 <= Len(s)
    /\ s[i] = "%"
    /\ s[i + 1] \in UpperCase

\* the start of the leftmost match of typevar at or after position i, or 0
RECURSIVE SearchTypevar(_, _)
SearchTypevar(s, i) ==
    IF i > Len(s) THEN 0
    ELSE IF IsTypevarAt(s, i) THEN i
    ELSE SearchTypevar(s, i + 1)

\* typevar.split(name): the pattern has one group, so the pieces alternate
\* between literal text and the matched '%X'
RECURSIVE typevar_split(_)
typevar_split(s) ==
    LET i == SearchTypevar(s, 1)
    IN  IF i = 0 THEN <<s>>
        ELSE <<SubSeq(s, 1, i - 1), SubSeq(s, i, i + 1)>>
                 \o typevar_split(From(s, i + 2))

\* re.escape(part): every character that is not alphanumeric gets a backslash
RECURSIVE re_escape(_)
re_escape(part) ==
    IF part = <<>> THEN <<>>
    ELSE (IF part[1] \in UpperCase \cup LowerCase \cup Digits
             THEN <<part[1]>>
             ELSE <<"\\", part[1]>>) \o re_escape(Tail(part))

\* the loop of parse_type over parts[i..], from the accumulated result acc
RECURSIVE ParseTypeLoop(_, _, _)
ParseTypeLoop(parts, i, acc) ==
    IF i > Len(parts) THEN acc
    ELSE LET part == parts[i]
         IN  IF part = <<>> THEN ParseTypeLoop(parts, i + 1, acc)
             ELSE IF Len(part) = 2 /\ part[1] = "%"
                THEN ParseTypeLoop(parts, i + 1,
                         [signode |-> Append(acc.signode, emphasis(<<part[2]>>)),
                          re_str  |-> acc.re_str \o <<"\\", "w", "+">>])
                ELSE ParseTypeLoop(parts, i + 1,
                         [signode |-> Append(acc.signode, desc_name(part)),
                          re_str  |-> acc.re_str \o re_escape(part)])

\* parse_type(name, signode): the nodes appended to signode and the returned
\* regular expression string
parse_type(name) ==
    ParseTypeLoop(typevar_split(name), 1, [signode |-> <<>>, re_str |-> <<>>])

\* ClifType.handle_signature(sig, signode)
ClifType_handle_signature(sig) ==
    LET name == strip(sig)
        r    == parse_type(name)
    IN  [name |-> name, signode |-> r.signode, re_str |-> r.re_str]

\* ', '.join(names)
RECURSIVE JoinComma(_)
JoinComma(names) ==
    IF names = <<>> THEN <<>>
    ELSE IF Len(names) = 1 THEN names[1]
    ELSE names[1] \o <<",", " ">> \o JoinComma(Tail(names))

\* the loop of format_signature over inst.ins[i..] (i >= 2)
RECURSIVE FormatRestIns(_, _, _)
FormatRestIns(ins, i, sig) ==
    IF i > Len(ins) THEN sig
    ELSE FormatRestIns(ins, i + 1,
             IF ins[i].kind = "variable_args"
                THEN sig \o <<"(">> \o ins[i].name \o <<".", ".", ".", ")">>
                ELSE sig \o <<",", " ">> \o ins[i].name)

\* mutant: the first input never gets its '...'
format_signature_nodots(inst) ==
    LET sig0 == IF Len(inst.outs) > 0
                   THEN JoinComma([i \in 1 .. Len(inst.outs) |-> inst.outs[i].name])
                            \o <<" ", "=", " ">> \o inst.name
                   ELSE inst.name
    IN  IF Len(inst.ins) > 0
           THEN FormatRestIns(inst.ins, 2, sig0 \o <<" ">> \o inst.ins[1].name)
           ELSE sig0

\* InstDocumenter.format_signature
format_signature(inst) ==
    LET sig0 == IF Len(inst.outs) > 0
                   THEN JoinComma([i \in 1 .. Len(inst.outs) |-> inst.outs[i].name])
                            \o <<" ", "=", " ">> \o inst.name
                   ELSE inst.name
    IN  IF Len(inst.ins) > 0
           THEN LET op   == inst.ins[1]
                    sig1 == sig0 \o <<" ">> \o op.name
                    sig2 == IF op.kind = "variable_args"
                               THEN sig1 \o <<".", ".", ".">>
                               ELSE sig1
                IN  FormatRestIns(inst.ins, 2, sig2)
           ELSE sig0

(***************************************************************************)
(* State.                                                                  *)
(*  objects  domaindata['clif']['objects'] of the main process             *)
(*  docids   per page, state.document.ids of its latest read (the target   *)
(*           ids the object descriptions registered); a page that was      *)
(*           purged and not read since has none                            *)
(*  cleared  pages whose clear_doc has run and whose read is still to come *)
(*  cur, ndesc  the page the main process is reading (or None) and the     *)
(*           number of descriptions it has processed on it                 *)
(*  wk       the forked reader processes: their chunk of pages, the pages  *)
(*           read so far, the page being read, and their copy of the index *)
(*  last     the operation that ran last, with its arguments and outputs   *)
(*  hist     for a parallel build: the index it started from, what each    *)
(*           page turned out to contain, the pages in the order merged     *)
(*  inp, out, pc  a signature handed to a parser, and what it returned     *)
(***************************************************************************)
VARIABLES objects, docids, cleared, cur, ndesc, wk, last, hist, inp, out, pc

vars == <<objects, docids, cleared, cur, ndesc, wk, last, hist, inp, out, pc>>

idxvars == <<objects, docids, cleared, cur, ndesc, wk, last, hist>>

sigvars == <<inp, out, pc>>

IdleWorker ==
    [busy |-> FALSE, chunk |-> {}, done |-> <<>>, cur |-> None, n |-> 0,
     data |-> EmptyIndex]

NoHist == [start |-> EmptyIndex, content |-> <<>>, order |-> <<>>]

Range(f) == {f[i] : i \in DOMAIN f}

\* no process is in the middle of reading pages
Quiet == cur = None /\ \A w \in Workers : ~wk[w].busy

InitIndex ==
    /\ objects = EmptyIndex
    /\ docids = [p \in Pages |-> {}]
    /\ cleared = {}
    /\ cur = None
    /\ ndesc = 0
    /\ wk = [w \in Workers |-> IdleWorker]
    /\ last = [op |-> "init"]
    /\ hist = NoHist

InitSigIdle ==
    /\ inp = None
    /\ out = None
    /\ pc = "idle"

Init == InitIndex /\ InitSigIdle

\* The host calls domain.clear_doc(d) for a page that is removed or about to
\* be read again, before the page is read and while no process is reading.
ClearDoc(d) ==
    /\ Quiet
    /\ d \notin cleared
    /\ objects' = clear_doc(objects, d)
    /\ docids' = [docids EXCEPT ![d] = {}]
    /\ cleared' = cleared \cup {d}
    /\ last' = [op |-> "clear_doc", docname |-> d]
    /\ UNCHANGED <<cur, ndesc, wk, hist, sigvars>>

\* The main process starts reading page d into a fresh document.
ReadDoc(d) ==
    /\ Quiet
    /\ d \in cleared
    /\ cur' = d
    /\ ndesc' = 0
    /\ docids' = [docids EXCEPT ![d] = {}]
    /\ cleared' = cleared \ {d}
    /\ last' = [op |-> "read_doc"]
    /\ UNCHANGED <<objects, wk, hist, sigvars>>

\* A clif directive on the page the main process is reading runs
\* add_target_and_index.
AddTargetAndIndex(objtype, name) ==
    /\ cur # None
    /\ ndesc < MaxDescs
    /\ LET r == add_target_and_index(objects, docids[cur], cur, objtype, name)
       IN  /\ objects' = r.inv
           /\ docids' = [docids EXCEPT ![cur] = r.ids]
           /\ last' = [op |-> "add_target_and_index", proc |-> "main",
                       docname |-> cur, objtype |-> objtype, name |-> name,
                       warnings |-> r.warnings]
    /\ ndesc' = ndesc + 1
    /\ UNCHANGED <<cleared, cur, wk, hist, sigvars>>

\* The main process reaches the end of the page.
EndDoc ==
    /\ cur # None
    /\ cur' = None
    /\ ndesc' = 0
    /\ last' = [op |-> "end_doc"]
    /\ UNCHANGED <<objects, docids, cleared, wk, hist, sigvars>>

\* A parallel build forks a reader for a chunk of the pages to read; the
\* child starts with a copy of the main process's domain data.
Fork(w, chunk) ==
    /\ cur = None
    /\ ~wk[w].busy
    /\ chunk # {}
    /\ chunk \subseteq cleared
    /\ wk' = [wk EXCEPT ![w] = [busy |-> TRUE, chunk |-> chunk, done |-> <<>>,
                                cur |-> None, n |-> 0, data |-> objects]]
    /\ cleared' = cleared \ chunk
    /\ last' = [op |-> "fork"]
    /\ UNCHANGED <<objects, docids, cur, ndesc, hist, sigvars>>

WorkerReadDoc(w, d) ==
    /\ wk[w].busy
    /\ wk[w].cur = None
    /\ d \in wk[w].chunk \ Range(wk[w].done)
    /\ wk' = [wk EXCEPT ![w].cur = d, ![w].n = 0]
    /\ docids' = [docids EXCEPT ![d] = {}]
    /\ last' = [op |-> "read_doc"]
    /\ UNCHANGED <<objects, cleared, cur, ndesc, hist, sigvars>>

\* add_target_and_index in a reader process: it works on the reader's copy.
WorkerAddStep(w, objtype, name) ==
    /\ wk[w].busy
    /\ wk[w].cur # None
    /\ wk[w].n < MaxDescs
    /\ LET d == wk[w].cur
           r == add_target_and_index(wk[w].data, docids[d], d, objtype, name)
       IN  /\ wk' = [wk EXCEPT ![w].data = r.inv, ![w].n = @ + 1]
           /\ docids' = [docids EXCEPT ![d] = r.ids]
           /\ last' = [op |-> "add_target_and_index", proc |-> w,
                       docname |-> d, objtype |-> objtype, name |-> name,
                       warnings |-> r.warnings]
    /\ UNCHANGED <<objects, cleared, cur, ndesc, sigvars>>

WorkerAdd(w, objtype, name) ==
    /\ WorkerAddStep(w, objtype, name)
    /\ UNCHANGED hist

WorkerEndDoc(w) ==
    /\ wk[w].busy
    /\ wk[w].cur # None
    /\ wk' = [wk EXCEPT ![w].cur = None, ![w].n = 0,
                        ![w].done = Append(@, wk[w].cur)]
    /\ last' = [op |-> "end_doc"]
    /\ UNCHANGED <<objects, docids, cleared, cur, ndesc, hist, sigvars>>

\* A reader has read its whole chunk; the main process merges the reader's
\* domain data: merge_domaindata(chunk, otherdata).
MergeStep(w) ==
    /\ cur = None
    /\ wk[w].busy
    /\ wk[w].cur = None
    /\ Range(wk[w].done) = wk[w].chunk
    /\ LET r == merge_domaindata(objects, wk[w].chunk, wk[w].data)
       IN  /\ objects' = r.objects
           /\ last' = [op |-> "merge_domaindata", proc |-> w,
                       docnames |-> wk[w].chunk, otherdata |-> r.otherdata]
    /\ wk' = [wk EXCEPT ![w] = IdleWorker]
    /\ UNCHANGED <<docids, cleared, cur, ndesc, sigvars>>

Merge(w) ==
    /\ MergeStep(w)
    /\ UNCHANGED hist

\* A cross-reference on page fromdocname with role typ is resolved, after
\* the reading phase.
ResolveXref(fromdocname, typ, target) ==
    /\ Quiet
    /\ last' = [op |-> "resolve_xref", fromdocname |-> fromdocname,
                typ |-> typ, target |-> target,
                result |-> resolve_xref(objects, fromdocname, typ, target)]
    /\ UNCHANGED <<objects, docids, cleared, cur, ndesc, wk, hist, sigvars>>

Next ==
    \/ \E d \in Pages : ClearDoc(d)
    \/ \E d \in Pages : ReadDoc(d)
    \/ \E k \in ObjTypes, n \in Names : AddTargetAndIndex(k, n)
    \/ EndDoc
    \/ \E w \in Workers, c \in SUBSET Pages : Fork(w, c)
    \/ \E w \in Workers, d \in Pages : WorkerReadDoc(w, d)
    \/ \E w \in Workers, k \in ObjTypes, n \in Names : WorkerAdd(w, k, n)
    \/ \E w \in Workers : WorkerEndDoc(w)
    \/ \E w \in Workers : Merge(w)
    \/ \E f \in Pages, t \in Roles, n \in Names : ResolveXref(f, t, n)

Spec == Init /\ [][Next]_vars

(***************************************************************************)
(* One parallel build (SpecPar): every page of Pages has been purged and   *)
(* is read by forked readers, chunk by chunk; the index starts with        *)
(* entries of a page that is not read again.  hist records what the build  *)
(* started from, what the pages contained and the chunks in merge order.   *)
(***************************************************************************)
OldPage == "p0"

StartIndexes ==
    UNION {[D -> {<<OldPage, k>> : k \in ObjTypes}] : D \in SUBSET Names}

InitPar ==
    /\ objects \in StartIndexes
    /\ docids = [p \in Pages |-> {}]
    /\ cleared = Pages
    /\ cur = None
    /\ ndesc = 0
    /\ wk = [w \in Workers |-> IdleWorker]
    /\ last = [op |-> "init"]
    /\ hist = [start |-> objects, content |-> [p \in Pages |-> <<>>],
               order |-> <<>>]
    /\ InitSigIdle

ParWorkerAdd(w, objtype, name) ==
    /\ WorkerAddStep(w, objtype, name)
    /\ hist' = [hist EXCEPT !.content[wk[w].cur] = Append(@, <<objtype, name>>)]

ParMerge(w) ==
    /\ MergeStep(w)
    /\ hist' = [hist EXCEPT !.order = Append(@, wk[w].done)]

NextPar ==
    \/ \E w \in Workers, c \in SUBSET Pages : Fork(w, c)
    \/ \E w \in Workers, d \in Pages : WorkerReadDoc(w, d)
    \/ \E w \in Workers, k \in ObjTypes, n \in Names : ParWorkerAdd(w, k, n)
    \/ \E w \in Workers : WorkerEndDoc(w)
    \/ \E w \in Workers : ParMerge(w)

SpecPar == InitPar /\ [][NextPar]_vars

\* The serial build: the index after the descriptions descs[i..] of page d
\* have run add_target_and_index in the main process, ids being the ids of
\* the document so far.
RECURSIVE SerialReadDoc(_, _, _, _, _)
SerialReadDoc(objs, ids, d, descs, i) ==
    IF i > Len(descs) THEN objs
    ELSE LET r == add_target_and_index(objs, ids, d, descs[i][1], descs[i][2])
         IN  SerialReadDoc(r.inv, r.ids, d, descs, i + 1)

\* The serial build over the pages docs[i..]: clear_doc(d), then the read of d.
RECURSIVE SerialRead(_, _, _, _)
SerialRead(objs, docs, i, content) ==
    IF i > Len(docs) THEN objs
    ELSE SerialRead(SerialReadDoc(clear_doc(objs, docs[i]), {}, docs[i],
                                  content[docs[i]], 1),
                    docs, i + 1, content)

RECURSIVE Flatten(_)
Flatten(seqs) == IF seqs = <<>> THEN <<>> ELSE Head(seqs) \o Flatten(Tail(seqs))

(***************************************************************************)
(* The signature parsers, applied to one input (SpecSig).  The host hands  *)
(* a directive its signature line stripped of surrounding whitespace, and  *)
(* a directive without an argument is rejected before handle_signature.    *)
(***************************************************************************)
InstAlphabet == {"a", "f", " ", ",", "="}

TypeAlphabet == {"i", "B", "%", ".", " "}

IsSignature(s) == s # <<>> /\ ~IsSpace(s[1]) /\ ~IsSpace(s[Len(s)])

InstSigs == {s \in StringsOver(InstAlphabet, MaxSigLen) : IsSignature(s)}

TypeSigs == {s \in StringsOver(TypeAlphabet, MaxTypeLen) : IsSignature(s)}

OpNames == {<<"a">>, <<"b", "c">>}

SeqsUpTo(S, maxlen) == UNION {[1 .. n -> S] : n \in 0 .. maxlen}

\* an instruction's operands; of the inputs only the last may be of kind
\* variable_args
OutOperands == [name : OpNames, kind : {"value"}]

InOperands == [name : OpNames, kind : {"value", "variable_args"}]

Instructions ==
    {i \in [name : {<<"f">>},
            outs : SeqsUpTo(OutOperands, MaxOps),
            ins  : SeqsUpTo(InOperands, MaxOps)] :
        \A j \in 1 .. Len(i.ins) - 1 : i.ins[j].kind = "value"}

InitSig ==
    /\ InitIndex
    /\ inp \in [kind : {"inst"}, sig : InstSigs]
              \cup [kind : {"type"}, sig : TypeSigs]
              \cup [kind : {"autoinst"}, inst : Instructions]
    /\ out = None
    /\ pc = "start"

\* .. clif:inst:: sig
InstHandleSignature ==
    /\ pc = "start"
    /\ inp.kind = "inst"
    /\ out' = ClifInst_handle_signature(inp.sig)
    /\ pc' = "done"
    /\ UNCHANGED <<inp, idxvars>>

\* .. clif:type:: sig
TypeHandleSignature ==
    /\ pc = "start"
    /\ inp.kind = "type"
    /\ out' = ClifType_handle_signature(inp.sig)
    /\ pc' = "done"
    /\ UNCHANGED <<inp, idxvars>>

\* .. autoinst:: the signature text generated for an instruction object
FormatSignature ==
    /\ pc = "start"
    /\ inp.kind = "autoinst"
    /\ out' = format_signature(inp.inst)
    /\ pc' = "done"
    /\ UNCHANGED <<inp, idxvars>>

NextSig ==
    \/ InstHandleSignature
    \/ TypeHandleSignature
    \/ FormatSignature

SpecSig == InitSig /\ [][NextSig]_vars

(***************************************************************************)
(* Claims about the signature parsers (checked under SpecSig).  The        *)
(* expected results are stated by positions in the signature text.         *)
(***************************************************************************)

\* s without its leading and trailing whitespace
Trim(s) ==
    IF \A i \in DOMAIN s : IsSpace(s[i]) THEN <<>>
    ELSE LET a == CHOOSE i \in DOMAIN s :
                      ~IsSpace(s[i]) /\ \A j \in 1 .. i - 1 : IsSpace(s[j])
             b == CHOOSE i \in DOMAIN s :
                      ~IsSpace(s[i]) /\ \A j \in i + 1 .. Len(s) : IsSpace(s[j])
         IN  SubSeq(s, a, b)

\* the position of the first '=' of s, or 0
FirstEq(s) ==
    IF \E i \in DOMAIN s : s[i] = "="
       THEN CHOOSE i \in DOMAIN s :
                s[i] = "=" /\ \A j \in 1 .. i - 1 : s[j] # "="
       ELSE 0

\* the text before the first '=', and the text after it (all of s without '=')
SigOuts(s) == Trim(SubSeq(s, 1, FirstEq(s) - 1))

AfterEq(s) == Trim(From(s, FirstEq(s) + 1))

\* the signature has a name: some token follows the first '='
HasName(s) == AfterEq(s) # <<>>

\* the end of the first whitespace-delimited token of t (t starts with it)
TokenEnd(t) ==
    CHOOSE b \in DOMAIN t :
        /\ \A j \in 1 .. b : ~IsSpace(t[j])
        /\ b = Len(t) \/ IsSpace(t[b + 1])

SigName(s) == SubSeq(AfterEq(s), 1, TokenEnd(AfterEq(s)))

SigIns(s) == Trim(From(AfterEq(s), TokenEnd(AfterEq(s)) + 1))

\* the comma-separated items of t
Items(t) ==
    LET cs     == {i \in DOMAIN t : t[i] = ","}
        kth(k) == CHOOSE c \in cs : Cardinality({x \in cs : x < c}) = k - 1
        n      == Cardinality(cs)
    IN  [k \in 1 .. n + 1 |->
            Trim(SubSeq(t, IF k = 1 THEN 1 ELSE kth(k - 1) + 1,
                           IF k = n + 1 THEN Len(t) ELSE kth(k) - 1))]

\* the items as emphasised nodes separated by ', '
EmphasisedList(items) ==
    [k \in 1 .. 2 * Len(items) - 1 |->
        IF k % 2 = 1 THEN emphasis(items[(k + 1) \div 2])
        ELSE Text(<<",", " ">>)]

ExpectedInstNodes(s) ==
    (IF FirstEq(s) # 0
        THEN EmphasisedList(Items(SigOuts(s))) \o <<Text(<<" ", "=", " ">>)>>
        ELSE <<>>)
    \o <<desc_name(SigName(s))>>
    \o (IF SigIns(s) # <<>>
           THEN <<Text(<<" ">>)>> \o EmphasisedList(Items(SigIns(s)))
           ELSE <<>>)

\* C5: for a signature '[outs =] name [ins]', ClifInst.handle_signature
\* returns the first token after the first '=' (the first token of the
\* signature when there is no '=') and appends the outs as emphasised items
\* separated by ', ', then ' = ' (only with an '='), the name, and (only when
\* text follows the name) a space and the ins as emphasised items.
C5_InstSignature ==
    (pc = "done" /\ inp.kind = "inst" /\ HasName(inp.sig)) =>
        /\ out.raised = None
        /\ out.name = SigName(inp.sig)
        /\ out.signode = ExpectedInstNodes(inp.sig)

\* a parsed signature with outs, an '=', a name and two ins
C5_Witness ==
    /\ pc = "done"
    /\ inp.kind = "inst"
    /\ FirstEq(inp.sig) # 0
    /\ out.raised = None
    /\ Len(out.signode) = 7
    /\ out.name = <<"f">>

MaxCandLen == 4
\* length of the strings the returned pattern is tried on

CandAlphabet == {"i", "B", "%", "."}

Candidates == StringsOver(CandAlphabet, MaxCandLen)

\* re.match(re_str + '$', c): the pattern re_str[i..] matches all of c[j..].
\* In the patterns parse_type builds, '\w+' is a non-empty run of word
\* characters, a backslash and a character is that character, and any other
\* character is itself.
RECURSIVE RegexMatches(_, _, _, _)
RegexMatches(re, i, c, j) ==
    IF i > Len(re) THEN j > Len(c)
    ELSE IF re[i] = "\\" /\ i + 2 <= Len(re) /\ re[i + 1] = "w" /\ re[i + 2] = "+"
       THEN \E k \in 1 .. Len(c) - j + 1 :
                /\ \A x \in j .. j + k - 1 : IsWord(c[x])
                /\ RegexMatches(re, i + 3, c, j + k)
    ELSE IF re[i] = "\\" /\ i + 1 <= Len(re)
       THEN j <= Len(c) /\ c[j] = re[i + 1] /\ RegexMatches(re, i + 2, c, j + 1)
    ELSE j <= Len(c) /\ c[j] = re[i] /\ RegexMatches(re, i + 1, c, j + 1)

\* a '%X' placeholder, X one upper-case letter, starts at position i of s
PlaceholderAt(s, i) ==
    i < Len(s) /\ s[i] = "%" /\ s[i + 1] \in UpperCase

\* the nodes of the type name s[i..], lit being the literal piece collected
\* so far: one emphasised letter per placeholder, one name node per
\* non-empty literal piece
RECURSIVE ExpectedTypeNodes(_, _, _)
ExpectedTypeNodes(s, i, lit) ==
    LET flush == IF lit = <<>> THEN <<>> ELSE <<desc_name(lit)>>
    IN  IF i > Len(s) THEN flush
        ELSE IF PlaceholderAt(s, i)
           THEN flush \o <<emphasis(<<s[i + 1]>>)>>
                      \o ExpectedTypeNodes(s, i + 2, <<>>)
        ELSE ExpectedTypeNodes(s, i + 1, Append(lit, s[i]))

\* c[j..] is s[i..] with every placeholder replaced by a non-empty run of
\* word characters and every other character kept
RECURSIVE IsInstance(_, _, _, _)
IsInstance(s, i, c, j) ==
    IF i > Len(s) THEN j > Len(c)
    ELSE IF PlaceholderAt(s, i)
       THEN \E k \in 1 .. Len(c) - j + 1 :
                /\ \A x \in j .. j + k - 1 : IsWord(c[x])
                /\ IsInstance(s, i + 2, c, j + k)
    ELSE j <= Len(c) /\ c[j] = s[i] /\ IsInstance(s, i + 1, c, j + 1)

\* C6: parse_type splits the type name at each '%X' placeholder and appends
\* one emphasised node with the bare letter per placeholder and one name node
\* per non-empty literal piece; the returned pattern matches exactly the
\* strings got by replacing each placeholder with a non-empty run of word
\* characters; ClifType.handle_signature returns the stripped signature.
C6_TypeSignature ==
    (pc = "done" /\ inp.kind = "type") =>
        /\ out.name = Trim(inp.sig)
        /\ out.signode = ExpectedTypeNodes(Trim(inp.sig), 1, <<>>)
        /\ \A c \in Candidates :
               RegexMatches(out.re_str, 1, c, 1) = IsInstance(Trim(inp.sig), 1, c, 1)

\* ', '-separated names
RECURSIVE Joined(_)
Joined(names) ==
    IF Len(names) = 0 THEN <<>>
    ELSE IF Len(names) = 1 THEN names[1]
    ELSE Joined(SubSeq(names, 1, Len(names) - 1))
             \o <<",", " ">> \o names[Len(names)]

EndsWith(s, t) ==
    Len(t) <= Len(s) /\ SubSeq(s, Len(s) - Len(t) + 1, Len(s)) = t

StartsWith(s, t) ==
    Len(t) <= Len(s) /\ SubSeq(s, 1, Len(t)) = t

OperandNames(ops) == [i \in 1 .. Len(ops) |-> ops[i].name]

LastIsVariadic(inst) ==
    Len(inst.ins) > 0 /\ inst.ins[Len(inst.ins)].kind = "variable_args"

\* the inputs that are not variadic, in operand order
PlainIns(inst) ==
    IF LastIsVariadic(inst) THEN SubSeq(inst.ins, 1, Len(inst.ins) - 1)
    ELSE inst.ins

\* '[outs = ]name[ ins]' with the outputs and the non-variadic inputs
\* comma-separated, in operand order
PlainSignature(inst) ==
    (IF Len(inst.outs) > 0
        THEN Joined(OperandNames(inst.outs)) \o <<" ", "=", " ">>
        ELSE <<>>)
    \o inst.name
    \o (IF Len(PlainIns(inst)) > 0
           THEN <<" ">> \o Joined(OperandNames(PlainIns(inst)))
           ELSE <<>>)

IndexOf(proc) == IF proc = "main" THEN objects ELSE wk[proc].data

\* where a resolved reference points: the page and the anchor
Destinations(result) == {<<r.todocname, r.targetid>> : r \in result}

\* name maps to value in index b, and b agrees with index a everywhere else
SameExceptAt(a, b, name) ==
    \A m \in Names \ {name} :
        /\ (m \in DOMAIN b) = (m \in DOMAIN a)
        /\ m \in DOMAIN a => b[m] = a[m]

\* C1 as stated: resolve_xref returns None exactly when the target is not in
\* the index, otherwise a reference to the recorded page with anchor
\* '<kind>-<target>'; and the whole result is the same for every role type
\* and every referring page.
C1_ResultIndependentOfReferrer ==
    last.op = "resolve_xref" =>
        /\ (last.result = {}) = (last.target \notin DOMAIN objects)
        /\ last.target \in DOMAIN objects =>
               Destinations(last.result) =
                   {<<objects[last.target][1],
                      objects[last.target][2] \o "-" \o last.target>>}
        /\ \A f \in Pages, t \in Roles :
               resolve_xref(objects, f, t, last.target) = last.result

\* C1 amended: resolve_xref returns None exactly when the target is not in
\* the index, otherwise one reference whose destination is the recorded page
\* with anchor '<kind>-<target>'; the destination is the same for every role
\* type and every referring page (the referring page is only handed on to
\* make_refnode as the origin of the link).
C1_Lookup ==
    last.op = "resolve_xref" =>
        /\ (last.result = {}) = (last.target \notin DOMAIN objects)
        /\ Cardinality(last.result) <= 1
        /\ last.target \in DOMAIN objects =>
               Destinations(last.result) =
                   {<<objects[last.target][1],
                      objects[last.target][2] \o "-" \o last.target>>}
        /\ \A r \in last.result : r.fromdocname = last.fromdocname
        /\ \A f \in Pages, t \in Roles :
               Destinations(resolve_xref(objects, f, t, last.target))
                   = Destinations(last.result)

\* a reference resolved from another page, through a role that is not the
\* kind of the object found
C1_Witness ==
    /\ last.op = "resolve_xref"
    /\ last.target \in DOMAIN objects
    /\ last.typ # objects[last.target][2]
    /\ last.fromdocname # objects[last.target][1]
    /\ last.result # {}

\* C2: add_target_and_index for name n of kind k on page d: when 'k-n' is not
\* yet an id of the document, the index afterwards maps n to (d, k) and every
\* other entry is unchanged; when it is, the index is unchanged.
C2_Insert ==
    [][last'.op = "add_target_and_index" =>
          LET proc == last'.proc
              d    == last'.docname
              k    == last'.objtype
              n    == last'.name
              pre  == IF proc = "main" THEN objects ELSE wk[proc].data
              post == IF proc = "main" THEN objects' ELSE wk'[proc].data
          IN  IF (k \o "-" \o n) \notin docids[d]
                 THEN /\ n \in DOMAIN post
                      /\ post[n] = <<d, k>>
                      /\ SameExceptAt(pre, post, n)
                 ELSE post = pre]_vars

\* a registration that replaced an earlier entry for the same name
C2_Witness ==
    /\ last.op = "add_target_and_index"
    /\ last.warnings # {}
    /\ last.name \in DOMAIN IndexOf(last.proc)
    /\ IndexOf(last.proc)[last.name] = <<last.docname, last.objtype>>
    /\ DOMAIN IndexOf(last.proc) = Names

\* C3 as stated: add_target_and_index emits the duplicate warning, citing the
\* page of the existing entry, every time the name is already in the index,
\* and emits none when the name is not in the index.
C3_WarningOnEveryDuplicate ==
    [][last'.op = "add_target_and_index" =>
          LET inv == IndexOf(last'.proc)
              n   == last'.name
          IN  IF n \in DOMAIN inv
                 THEN last'.warnings = {<<n, doc2path(inv[n][1])>>}
                 ELSE last'.warnings = {}]_vars

\* C4: merge_domaindata(docnames, otherdata): an entry of otherdata whose page
\* is in docnames is copied over this domain's entry; every other name keeps
\* what it had; otherdata is left as it was.
C4_Merge ==
    [][last'.op = "merge_domaindata" =>
          LET other == wk[last'.proc].data
              docs  == wk[last'.proc].chunk
          IN  /\ \A n \in Names :
                    IF n \in DOMAIN other /\ other[n][1] \in docs
                       THEN n \in DOMAIN objects' /\ objects'[n] = other[n]
                       ELSE /\ (n \in DOMAIN objects') = (n \in DOMAIN objects)
                            /\ n \in DOMAIN objects => objects'[n] = objects[n]
              /\ last'.otherdata = other]_vars

\* a merge that copied one entry and did not copy another entry of
\* otherdata, for a name this domain holds with another page
C4_Witness ==
    /\ last.op = "merge_domaindata"
    /\ \E n \in DOMAIN last.otherdata :
           /\ last.otherdata[n][1] \in last.docnames
           /\ objects[n] = last.otherdata[n]
    /\ \E n \in DOMAIN last.otherdata :
           /\ last.otherdata[n][1] \notin last.docnames
           /\ n \in DOMAIN objects
           /\ objects[n] # last.otherdata[n]

\* C8: clear_doc(d) removes exactly the entries recorded for page d; a name
\* whose entry pointed to d is absent afterwards, also when another page
\* describes it.
C8_ClearDoc ==
    [][last'.op = "clear_doc" =>
          LET d == last'.docname
          IN  /\ DOMAIN objects' \subseteq DOMAIN objects
              /\ \A n \in DOMAIN objects' : objects'[n][1] # d
              /\ \A n \in DOMAIN objects :
                    IF objects[n][1] = d
                       THEN n \notin DOMAIN objects'
                       ELSE n \in DOMAIN objects' /\ objects'[n] = objects[n]]_vars

\* after clear_doc(d) a name is absent from the index although another page
\* still holds a description of it, and an entry of another page was kept
C8_Witness ==
    /\ last.op = "clear_doc"
    /\ \E n \in Names :
           /\ n \notin DOMAIN objects
           /\ \E p \in Pages \ {last.docname}, k \in ObjTypes :
                  (k \o "-" \o n) \in docids[p]
    /\ \E n \in DOMAIN objects : objects[n][1] # last.docname

\* C9: every index entry n -> (p, k) refers to a page p whose latest read
\* registered the target id 'k-n'; so the anchor of every reference that
\* resolve_xref returns exists on the page it points to.
C9_AnchorExists ==
    /\ \A n \in DOMAIN objects :
           /\ objects[n][1] \in Pages
           /\ (objects[n][2] \o "-" \o n) \in docids[objects[n][1]]
    /\ last.op = "resolve_xref" =>
           \A r \in last.result : r.targetid \in docids[r.todocname]

\* a reference resolved while the index holds entries of two pages
C9_Witness ==
    /\ last.op = "resolve_xref"
    /\ last.result # {}
    /\ \E n \in DOMAIN objects : objects[n][1] # objects[last.target][1]

(***************************************************************************)
(* Claim about a parallel build (checked under SpecPar).                   *)
(***************************************************************************)

\* every chunk has been read and merged
ParDone ==
    /\ cleared = {}
    /\ \A w \in Workers : ~wk[w].busy

\* C10: once every chunk is merged, the index equals the index a serial
\* build gets from the same start by reading the same pages in the order
\* of the merged chunks.
C10_ParallelEqualsSerial ==
    ParDone =>
        objects = SerialRead(hist.start, Flatten(hist.order), 1, hist.content)

\* a finished build of two chunks whose pages both describe a name that the
\* index already held at the start
C10_Witness ==
    /\ ParDone
    /\ Len(hist.order) = 2
    /\ \E n \in DOMAIN hist.start :
           \A p \in Pages : \E k \in ObjTypes : <<k, n>> \in Range(hist.content[p])

=============================================================================
